---- MODULE Spec2Model ----
(***************************************************************************)
(* Model of the Jira handlers of the provider: the three read-only lookups *)
(* (workflow scheme, status, issue screen) and the project resource        *)
(* (ImportState, Create, Read, Update, Delete).                            *)
(*                                                                         *)
(* A Go string is a sequence of one-character strings, so that parsing     *)
(* and formatting (Atoi, Itoa, Split, url.Parse) are computed.  A          *)
(* types.String / types.Int64 value is a record [null, v], the zero value  *)
(* of the framework type being null.                                       *)
(***************************************************************************)
EXTENDS Integers, Sequences, FiniteSets, TLC

----------------------------------------------------------------------------
(* Bounds of the model *)

\* longest id typed into a configuration or an import
MaxIdLen == 2
\* longest project-id membership list of one association
MaxPids == 2
\* largest id the remote assigns to a created project
MaxRemoteId == 2

----------------------------------------------------------------------------
(* strconv, strings, net/url *)

Digits == {"0", "1", "2", "3", "4", "5", "6", "7", "8", "9"}

DigitVal(c) ==
    CASE c = "0" -> 0 [] c = "1" -> 1 [] c = "2" -> 2 [] c = "3" -> 3
      [] c = "4" -> 4 [] c = "5" -> 5 [] c = "6" -> 6 [] c = "7" -> 7
      [] c = "8" -> 8 [] c = "9" -> 9

DigitChar(d) ==
    CASE d = 0 -> "0" [] d = 1 -> "1" [] d = 2 -> "2" [] d = 3 -> "3"
      [] d = 4 -> "4" [] d = 5 -> "5" [] d = 6 -> "6" [] d = 7 -> "7"
      [] d = 8 -> "8" [] d = 9 -> "9"

RECURSIVE DecimalValue(_, _)
\* n = n*10 + int(ch) over the digits of s, starting from acc
DecimalValue(s, acc) ==
    IF s = <<>> THEN acc
    ELSE DecimalValue(Tail(s), acc * 10 + DigitVal(Head(s)))

\* (mutation) a sign without digits is read as 0
AtoiBareSign(s) ==
    LET signed == s # <<>> /\ Head(s) \in {"+", "-"}
        body   == IF signed THEN Tail(s) ELSE s
        syntax == s = <<>> \/ \E i \in 1..Len(body) : body[i] \notin Digits
        n      == DecimalValue(body, 0)
    IN  IF syntax THEN [err |-> TRUE, n |-> 0]
        ELSE [err |-> FALSE, n |-> IF Head(s) = "-" THEN 0 - n ELSE n]

\* strconv.Atoi: an optional sign, then one or more decimal digits; a syntax
\* error yields 0.  The ids of the model are shorter than 19 characters, so
\* the value always fits the 64-bit int and no range error arises.
Atoi(s) ==
    LET signed == s # <<>> /\ Head(s) \in {"+", "-"}
        body   == IF signed THEN Tail(s) ELSE s
        syntax == body = <<>> \/ \E i \in 1..Len(body) : body[i] \notin Digits
        n      == DecimalValue(body, 0)
    IN  IF syntax THEN [err |-> TRUE, n |-> 0]
        ELSE [err |-> FALSE, n |-> IF Head(s) = "-" THEN 0 - n ELSE n]

RECURSIVE NatDigits(_)
NatDigits(n) ==
    IF n < 10 THEN <<DigitChar(n)>>
    ELSE Append(NatDigits(n \div 10), DigitChar(n % 10))

\* strconv.Itoa
Itoa(n) == IF n < 0 THEN <<"-">> \o NatDigits(0 - n) ELSE NatDigits(n)

RECURSIVE SplitFrom(_, _, _)
\* the fields of s separated by sep, cur being the field read so far
SplitFrom(s, sep, cur) ==
    IF s = <<>> THEN <<cur>>
    ELSE IF Head(s) = sep THEN <<cur>> \o SplitFrom(Tail(s), sep, <<>>)
    ELSE SplitFrom(Tail(s), sep, Append(cur, Head(s)))

\* strings.Split(s, sep) for a one-character separator
Split(s, sep) == SplitFrom(s, sep, <<>>)

\* index of the first occurrence of c in s, or Len(s) + 1
FirstIndex(s, c) ==
    IF \E i \in 1..Len(s) : s[i] = c
    THEN CHOOSE i \in 1..Len(s) : s[i] = c /\ \A j \in 1..(i - 1) : s[j] # c
    ELSE Len(s) + 1

\* url.Parse, as far as the avatar URLs of the model exercise it: an
\* optional scheme "h:", the query cut at "?", an optional "//authority",
\* and the rest as Path; "%" stands for an invalid escape, which makes
\* Parse fail and return a nil URL.
UrlParse(u) ==
    LET noScheme == IF Len(u) >= 2 /\ u[1] = "h" /\ u[2] = ":"
                    THEN SubSeq(u, 3, Len(u)) ELSE u
        noQuery  == SubSeq(noScheme, 1, FirstIndex(noScheme, "?") - 1)
        hasAuth  == Len(noQuery) >= 2 /\ noQuery[1] = "/" /\ noQuery[2] = "/"
        afterSl  == IF hasAuth THEN SubSeq(noQuery, 3, Len(noQuery)) ELSE noQuery
        path     == IF hasAuth
                    THEN SubSeq(afterSl, FirstIndex(afterSl, "/"), Len(afterSl))
                    ELSE noQuery
    IN  IF \E i \in 1..Len(u) : u[i] = "%"
        THEN [err |-> TRUE, Path |-> <<>>]
        ELSE [err |-> FALSE, Path |-> path]

----------------------------------------------------------------------------
(* Framework values: types.String and types.Int64 *)

StringNull == [null |-> TRUE, v |-> <<>>]
StringValue(s) == [null |-> FALSE, v |-> s]
\* types.String.ValueString: "" when the value is null
ValueString(x) == IF x.null THEN <<>> ELSE x.v

Int64Null == [null |-> TRUE, v |-> 0]
Int64Value(n) == [null |-> FALSE, v |-> n]
\* types.Int64.ValueInt64: 0 when the value is null
ValueInt64(x) == IF x.null THEN 0 ELSE x.v
\* types.Int64.String: "<null>" when the value is null
Int64String(x) == IF x.null THEN <<"<", "n", "u", "l", "l", ">">> ELSE Itoa(x.v)

----------------------------------------------------------------------------
(* Remote calls, their results, and diagnostics *)

\* One call issued to the client: the method, its string argument (an id
\* or key), its integer argument, the cascade flag of Project.Delete, the
\* scheme argument of Assign, and the paging arguments.
Call(method, key, num) ==
    [method |-> method, key |-> key, num |-> num,
     enableUndo |-> FALSE, scheme |-> <<>>, startAt |-> 0, maxResults |-> 0,
     payload |-> <<>>]

ErrMsg == <<"e", "r", "r">>
RawBody == <<"b", "o", "d", "y">>

\* What a client method returns: (payload, response, error).  res is FALSE
\* when the response pointer is nil.
Ok(val) == [err |-> FALSE, res |-> TRUE, msg |-> <<>>, body |-> <<>>, val |-> val]
Failed == [err |-> TRUE, res |-> TRUE, msg |-> ErrMsg, body |-> RawBody, val |-> <<>>]
FailedNoResponse ==
    [err |-> TRUE, res |-> FALSE, msg |-> ErrMsg, body |-> <<>>, val |-> <<>>]

\* the three ways a call that would return val can end
Outcomes(val) == {Ok(val), Failed, FailedNoResponse}

\* resp.Diagnostics.AddAttributeError(path.Root("id"), ...)
AttributeError ==
    [attr |-> <<"i", "d">>,
     summary |-> "Unable to parse value of \"id\" attribute.",
     msg |-> <<>>, body |-> <<>>]

\* resp.Diagnostics.AddError("Client Error", Sprintf("...%s\n%s", err, body))
ClientError(what, msg, body) ==
    [attr |-> <<>>, summary |-> what, msg |-> msg, body |-> body]

\* What one handler invocation produced: the calls it issued, its
\* diagnostics, whether it ended in a runtime fault (panic), and the state
\* it passed to resp.State.Set, if it did.
Result(calls, diags, fault, set, state) ==
    [calls |-> calls, diags |-> diags, fault |-> fault, set |-> set, state |-> state]

NoState == <<>>

\* var resBody string; if res != nil { resBody = res.Bytes.String() }
GuardedBody(r) == IF r.res THEN r.body ELSE <<>>

----------------------------------------------------------------------------
(* Read-only lookups *)

\* jiraWorkflowSchemeDataSource.Read
WorkflowSchemeRead(config, r) ==
    LET workflowSchemeId == Atoi(ValueString(config.ID))
        call == Call("Workflow.Scheme.Get", <<>>, workflowSchemeId.n)
    IN  IF workflowSchemeId.err
        THEN Result(<<>>, <<AttributeError>>, FALSE, FALSE, NoState)
        ELSE IF r.err
        THEN Result(<<call>>,
                    <<ClientError("Unable to get Jira workflow scheme", r.msg, GuardedBody(r))>>,
                    FALSE, FALSE, NoState)
        ELSE Result(<<call>>, <<>>, FALSE, TRUE,
                    [ID |-> config.ID,
                     Name |-> StringValue(r.val.Name),
                     Description |-> StringValue(r.val.Description)])

\* (mutation) the last element of the returned slice is taken
StatusReadLast(config, r) ==
    LET statusId == ValueString(config.ID)
        call == Call("Workflow.Status.Gets", statusId, 0)
    IN  IF statusId = <<>>
        THEN Result(<<>>, <<AttributeError>>, FALSE, FALSE, NoState)
        ELSE IF r.err
        THEN Result(<<call>>,
                    <<ClientError("Unable to get Jira status", r.msg, GuardedBody(r))>>,
                    FALSE, FALSE, NoState)
        ELSE IF Len(r.val) = 0
        THEN Result(<<call>>, <<>>, TRUE, FALSE, NoState)
        ELSE Result(<<call>>, <<>>, FALSE, TRUE,
                    [ID |-> config.ID,
                     Name |-> StringValue(r.val[Len(r.val)].Name),
                     Description |-> StringValue(r.val[Len(r.val)].Description),
                     Category |-> StringValue(r.val[Len(r.val)].StatusCategory)])

\* jiraStatusDataSource.Read
StatusRead(config, r) ==
    LET statusId == ValueString(config.ID)
        call == Call("Workflow.Status.Gets", statusId, 0)
    IN  IF statusId = <<>>
        THEN Result(<<>>, <<AttributeError>>, FALSE, FALSE, NoState)
        ELSE IF r.err
        THEN Result(<<call>>,
                    <<ClientError("Unable to get Jira status", r.msg, GuardedBody(r))>>,
                    FALSE, FALSE, NoState)
        ELSE IF Len(r.val) = 0
        THEN \* status[0] on an empty slice: index out of range
             Result(<<call>>, <<>>, TRUE, FALSE, NoState)
        ELSE Result(<<call>>, <<>>, FALSE, TRUE,
                    [ID |-> config.ID,
                     Name |-> StringValue(r.val[1].Name),
                     Description |-> StringValue(r.val[1].Description),
                     Category |-> StringValue(r.val[1].StatusCategory)])

\* (mutation) an empty page is reported as a handled error
IssueScreenReadChecked(config, r) ==
    LET issueScreenId == Atoi(ValueString(config.ID))
        call == [Call("Screen.Gets", <<>>, issueScreenId.n)
                     EXCEPT !.startAt = 0, !.maxResults = 50]
    IN  IF issueScreenId.err
        THEN Result(<<>>, <<AttributeError>>, FALSE, FALSE, NoState)
        ELSE IF r.err
        THEN Result(<<call>>,
                    <<ClientError("Unable to get issue screen", r.msg, GuardedBody(r))>>,
                    FALSE, FALSE, NoState)
        ELSE IF Len(r.val) = 0
        THEN Result(<<call>>,
                    <<ClientError("Unable to get issue screen", <<>>, <<>>)>>,
                    FALSE, FALSE, NoState)
        ELSE Result(<<call>>, <<>>, FALSE, TRUE,
                    [ID |-> config.ID,
                     Name |-> StringValue(r.val[1].Name),
                     Description |-> StringValue(r.val[1].Description)])

\* jiraIssueScreenDataSource.Read
IssueScreenRead(config, r) ==
    LET issueScreenId == Atoi(ValueString(config.ID))
        call == [Call("Screen.Gets", <<>>, issueScreenId.n)
                     EXCEPT !.startAt = 0, !.maxResults = 50]
    IN  IF issueScreenId.err
        THEN Result(<<>>, <<AttributeError>>, FALSE, FALSE, NoState)
        ELSE IF r.err
        THEN Result(<<call>>,
                    <<ClientError("Unable to get issue screen", r.msg, GuardedBody(r))>>,
                    FALSE, FALSE, NoState)
        ELSE IF Len(r.val) = 0
        THEN \* issueScreen.Values[0] on an empty slice: index out of range
             Result(<<call>>, <<>>, TRUE, FALSE, NoState)
        ELSE Result(<<call>>, <<>>, FALSE, TRUE,
                    [ID |-> config.ID,
                     Name |-> StringValue(r.val[1].Name),
                     Description |-> StringValue(r.val[1].Description)])

----------------------------------------------------------------------------
(* Project resource *)

\* jiraProjectResourceModel with every attribute null
NullProject ==
    [ID |-> StringNull, Key |-> StringNull, Name |-> StringNull,
     Description |-> StringNull, AvatarId |-> Int64Null,
     FieldConfigurationScheme |-> Int64Null, IssueTypeScheme |-> Int64Null,
     IssueTypeScreenScheme |-> Int64Null, WorkflowScheme |-> Int64Null,
     LeadAccountId |-> StringNull, ProjectTypeKey |-> StringNull,
     URL |-> StringNull]

\* resource.ImportStatePassthroughID(ctx, path.Root("id"), req, resp)
ImportState(id) == [NullProject EXCEPT !.ID = StringValue(id)]

\* the body of a failed call as the project Read, Update and Delete handlers
\* take it, res.Bytes.String(): a nil response makes it a nil dereference
UnguardedBody(r) == [fault |-> ~r.res, body |-> r.body]

\* the user-facing outcome of a failed call in Read, Update and Delete
UnguardedFailure(calls, what, r) ==
    IF UnguardedBody(r).fault
    THEN Result(calls, <<>>, TRUE, FALSE, NoState)
    ELSE Result(calls, <<ClientError(what, r.msg, UnguardedBody(r).body)>>,
                FALSE, FALSE, NoState)

\* avatarUrl, _ := url.Parse(project.AvatarUrls.One6X16)
\* avatarID, _ := strconv.Atoi(strings.Split(avatarUrl.Path, "/")[9])
\* A failed Parse leaves avatarUrl nil and a path of fewer than ten fields
\* has no index 9: both are runtime faults.
AvatarID(project) ==
    LET avatarUrl == UrlParse(project.One6X16)
        fields    == Split(avatarUrl.Path, "/")
    IN  IF avatarUrl.err \/ Len(fields) < 10
        THEN [fault |-> TRUE, n |-> 0]
        ELSE [fault |-> FALSE, n |-> Atoi(fields[10]).n]

\* projectPayload of Create
CreatePayload(plan) ==
    [Key |-> ValueString(plan.Key),
     Name |-> ValueString(plan.Name),
     Description |-> ValueString(plan.Description),
     AvatarID |-> ValueInt64(plan.AvatarId),
     FieldConfigurationScheme |-> ValueInt64(plan.FieldConfigurationScheme),
     IssueTypeScheme |-> ValueInt64(plan.IssueTypeScheme),
     IssueTypeScreenScheme |-> ValueInt64(plan.IssueTypeScreenScheme),
     LeadAccountID |-> ValueString(plan.LeadAccountId),
     ProjectTypeKey |-> ValueString(plan.ProjectTypeKey),
     URL |-> ValueString(plan.URL),
     WorkflowScheme |-> ValueInt64(plan.WorkflowScheme)]

\* (mutation) the id the remote assigned is not stored
CreatedStateWithoutID(plan, returnedProject) == plan

\* the state Create stores: the plan with the id the remote assigned
CreatedState(plan, returnedProject) ==
    [plan EXCEPT !.ID = StringValue(Itoa(returnedProject.ID))]

\* jiraProjectResource.Create
ProjectCreate(plan, r) ==
    LET call == [Call("Project.Create", <<>>, 0) EXCEPT !.payload = CreatePayload(plan)]
    IN  IF r.err
        THEN Result(<<call>>,
                    <<ClientError("Unable to create project", r.msg, GuardedBody(r))>>,
                    FALSE, FALSE, NoState)
        ELSE Result(<<call>>, <<>>, FALSE, TRUE, CreatedState(plan, r.val))

\* for issueTypeSchemeProjectId := range issueTypeScheme.ProjectIds {
\*     if issueTypeSchemeProjectId == projectIDInt { ...; break } }
\* A range with one variable yields the indices 0 .. len-1 of the slice.
InProjectIds(issueTypeScheme, projectIDInt) ==
    \E issueTypeSchemeProjectId \in 0..(Len(issueTypeScheme.ProjectIds) - 1) :
        issueTypeSchemeProjectId = projectIDInt

RECURSIVE ScanIssueTypeSchemes(_, _, _)
\* for _, issueTypeScheme := range issueTypesSchemes.Values { ... }
ScanIssueTypeSchemes(values, projectIDInt, current) ==
    IF values = <<>> THEN current
    ELSE ScanIssueTypeSchemes(
             Tail(values), projectIDInt,
             IF InProjectIds(Head(values), projectIDInt)
             THEN Int64Value(Atoi(Head(values).IssueTypeScheme.ID).n)
             ELSE current)

\* (mutation) the lead account id is not refreshed from the response
ReadLeadAccountIdKept(state, project) == state.LeadAccountId

\* state.LeadAccountId = types.StringValue(project.Lead.AccountID)
ReadLeadAccountId(state, project) == StringValue(project.LeadAccountID)

\* jiraProjectResource.Read; get and schemes are what Project.Get and
\* Issue.Type.Scheme.Projects return (the second only if it is reached)
ProjectRead(state, get, schemes) ==
    LET projectID    == ValueString(state.ID)
        project      == get.val
        call1        == Call("Project.Get", projectID, 0)
        avatarID     == AvatarID(project)
        projectIDInt == Atoi(projectID).n
        call2        == [Call("Issue.Type.Scheme.Projects", <<>>, projectIDInt)
                            EXCEPT !.startAt = 0, !.maxResults = 1]
        filled       == [state EXCEPT
                            !.ID = StringValue(project.ID),
                            !.Key = StringValue(project.Key),
                            !.Name = StringValue(project.Name),
                            !.Description = StringValue(project.Description),
                            !.AvatarId = Int64Value(avatarID.n),
                            !.LeadAccountId = ReadLeadAccountId(state, project),
                            !.ProjectTypeKey = StringValue(project.ProjectTypeKey),
                            !.URL = StringValue(project.URL)]
    IN  IF get.err
        THEN UnguardedFailure(<<call1>>, "Unable to get project", get)
        ELSE IF avatarID.fault
        THEN Result(<<call1>>, <<>>, TRUE, FALSE, NoState)
        ELSE IF schemes.err
        THEN UnguardedFailure(<<call1, call2>>,
                              "Unable to get issue type schemes for project", schemes)
        ELSE Result(<<call1, call2>>, <<>>, FALSE, TRUE,
                    [filled EXCEPT !.IssueTypeScheme =
                        ScanIssueTypeSchemes(schemes.val, projectIDInt,
                                             state.IssueTypeScheme)])

\* projectPayload of Update
UpdatePayload(plan) ==
    [Key |-> ValueString(plan.Key),
     Name |-> ValueString(plan.Name),
     Description |-> ValueString(plan.Description),
     AvatarID |-> ValueInt64(plan.AvatarId),
     ProjectTypeKey |-> ValueString(plan.ProjectTypeKey),
     URL |-> ValueString(plan.URL)]

\* (mutation) the update call keyed by the id of the plan
UpdateProjectIDOfPlan(plan, state) == ValueString(plan.ID)

\* projectID := state.ID.ValueString() in Update
UpdateProjectID(plan, state) == ValueString(state.ID)

\* (mutation) the error of the assignment call is not checked
AssignFailedUnchecked(assign) == FALSE

\* if err != nil after Issue.Type.Scheme.Assign
AssignFailed(assign) == assign.err

\* (mutation) the scheme is assigned to the id of the prior state
AssignProjectIDOfState(state, returnedProject) == ValueString(state.ID)

\* the project the scheme is assigned to: returnedProject.ID
AssignProjectID(state, returnedProject) == returnedProject.ID

\* (mutation) the stored id is the id of the plan
UpdatedIDOfPlan(plan, returnedProject) == plan.ID

\* ID: types.StringValue(returnedProject.ID) of the state Update stores
UpdatedID(plan, returnedProject) == StringValue(returnedProject.ID)

\* jiraProjectResource.Update; update and assign are what Project.Update
\* and Issue.Type.Scheme.Assign return (the second only if it is reached)
ProjectUpdate(plan, state, update, assign) ==
    LET projectID       == UpdateProjectID(plan, state)
        returnedProject == update.val
        call1 == [Call("Project.Update", projectID, 0)
                     EXCEPT !.payload = UpdatePayload(plan)]
        call2 == [Call("Issue.Type.Scheme.Assign",
                       AssignProjectID(state, returnedProject), 0)
                     EXCEPT !.scheme = Int64String(plan.IssueTypeScheme)]
        avatarID == AvatarID(returnedProject)
    IN  IF update.err
        THEN UnguardedFailure(<<call1>>, "Unable to update issue type", update)
        ELSE IF AssignFailed(assign)
        THEN UnguardedFailure(<<call1, call2>>,
                              "Unable to assign issue type scheme to project", assign)
        ELSE IF avatarID.fault
        THEN Result(<<call1, call2>>, <<>>, TRUE, FALSE, NoState)
        ELSE Result(<<call1, call2>>, <<>>, FALSE, TRUE,
                    [NullProject EXCEPT
                        !.ID = UpdatedID(plan, returnedProject),
                        !.Key = StringValue(returnedProject.Key),
                        !.Name = StringValue(returnedProject.Name),
                        !.Description = StringValue(returnedProject.Description),
                        !.AvatarId = Int64Value(avatarID.n),
                        !.IssueTypeScheme = Int64Value(ValueInt64(plan.IssueTypeScheme)),
                        !.LeadAccountId = StringValue(returnedProject.LeadAccountID),
                        !.ProjectTypeKey = StringValue(returnedProject.ProjectTypeKey),
                        !.URL = StringValue(returnedProject.URL)])

\* (mutation) the delete call asks for the undoable, cascading variant
ProjectDeleteEnableUndo(state, r) ==
    LET call == [Call("Project.Delete", ValueString(state.ID), 0)
                    EXCEPT !.enableUndo = TRUE]
    IN  IF r.err
        THEN UnguardedFailure(<<call>>, "Unable to delete project", r)
        ELSE Result(<<call>>, <<>>, FALSE, FALSE, NoState)

\* jiraProjectResource.Delete
ProjectDelete(state, r) ==
    LET call == [Call("Project.Delete", ValueString(state.ID), 0)
                    EXCEPT !.enableUndo = FALSE]
    IN  IF r.err
        THEN UnguardedFailure(<<call>>, "Unable to delete project", r)
        ELSE Result(<<call>>, <<>>, FALSE, FALSE, NoState)

----------------------------------------------------------------------------
(* Inputs: configurations, plans and what the remote returns *)

IdAlphabet == {"0", "1", "A", "-", "+"}

\* every string over IdAlphabet of at most MaxIdLen characters
IdStrings == UNION {[1..n -> IdAlphabet] : n \in 0..MaxIdLen}

\* the ids the remote assigns to projects
RemoteIds == 1..MaxRemoteId

Configs == {[ID |-> StringValue(id)] : id \in IdStrings}

WorkflowSchemes ==
    {[Name |-> <<"w", "1">>, Description |-> <<>>],
     [Name |-> <<"w", "2">>, Description |-> <<"d">>]}

StatusA == [Name |-> <<"s", "1">>, Description |-> <<>>, StatusCategory |-> <<"T">>]
StatusB == [Name |-> <<"s", "2">>, Description |-> <<"d">>, StatusCategory |-> <<"D">>]
\* Workflow.Status.Gets returns a slice
StatusLists == {<<>>, <<StatusA>>, <<StatusB, StatusA>>}

ScreenA == [Name |-> <<"f", "1">>, Description |-> <<>>]
ScreenB == [Name |-> <<"f", "2">>, Description |-> <<"d">>]
\* the Values of the page Screen.Gets returns
ScreenLists == {<<>>, <<ScreenA>>, <<ScreenB, ScreenA>>}

\* https://x/rest/api/3/universal_avatar/view/type/project/avatar/3?size
AvatarUrlGood ==
    <<"h", ":", "/", "/", "x", "/", "r", "/", "a", "/", "3", "/", "u", "/", "v",
      "/", "t", "/", "p", "/", "a", "/", "3", "?", "s">>
\* an avatar URL whose path has fewer than ten fields
AvatarUrlShort == <<"h", ":", "/", "/", "x", "/", "a", "/", "3">>

\* models.ProjectScheme as Project.Get and Project.Update return it
RemoteProjects(id) ==
    {[ID |-> Itoa(id), Key |-> <<"A">>, Name |-> <<"T", "e", "s", "t">>,
      Description |-> <<>>, One6X16 |-> AvatarUrlGood,
      LeadAccountID |-> <<"u", "1">>, ProjectTypeKey |-> <<"s", "w">>, URL |-> <<>>],
     [ID |-> Itoa(id), Key |-> <<"A">>, Name |-> <<"N", "e", "w">>,
      Description |-> <<"d">>, One6X16 |-> AvatarUrlGood,
      LeadAccountID |-> <<"u", "2">>, ProjectTypeKey |-> <<"b">>, URL |-> <<"l">>],
     [ID |-> Itoa(id), Key |-> <<"A">>, Name |-> <<"T", "e", "s", "t">>,
      Description |-> <<>>, One6X16 |-> AvatarUrlShort,
      LeadAccountID |-> <<"u", "1">>, ProjectTypeKey |-> <<"s", "w">>, URL |-> <<>>]}

\* what the plan of a Create or an Update holds besides the id
PlanBodies ==
    {[NullProject EXCEPT
        !.Key = StringValue(<<"A">>), !.Name = StringValue(<<"T", "e", "s", "t">>),
        !.Description = StringValue(<<>>), !.LeadAccountId = StringValue(<<"u", "1">>),
        !.ProjectTypeKey = StringValue(<<"s", "w">>), !.URL = StringValue(<<>>)],
     [NullProject EXCEPT
        !.Key = StringValue(<<"A">>), !.Name = StringValue(<<"P", "l", "a", "n">>),
        !.Description = StringValue(<<"p">>), !.AvatarId = Int64Value(4),
        !.FieldConfigurationScheme = Int64Value(5),
        !.IssueTypeScheme = Int64Value(10),
        !.IssueTypeScreenScheme = Int64Value(6),
        !.WorkflowScheme = Int64Value(7),
        !.ProjectTypeKey = StringValue(<<"b">>), !.URL = StringValue(<<"l">>)]}

SchemeIds == {<<"1", "0">>, <<"2", "0">>}
PidStrings == {<<"1">>, <<"7">>}

\* models.IssueTypeSchemeProjectsScheme
Associations ==
    {[IssueTypeScheme |-> [ID |-> sid], ProjectIds |-> pids] :
        sid \in SchemeIds,
        pids \in UNION {[1..n -> PidStrings] : n \in 0..MaxPids}}

\* maxResults of the association query: the page holds at most one value
MaxResults == 1

AssociationLists == UNION {[1..n -> Associations] : n \in 0..MaxResults}

\* What the remote holds while a Read runs: at most one project, answering
\* to its id and to its key, and the page of associations it returns when
\* the associations of that project's id are asked for.
NoProject == <<>>
RemoteContents ==
    {[project |-> p, values |-> v] :
        p \in {NoProject} \cup UNION {RemoteProjects(id) : id \in RemoteIds},
        v \in AssociationLists}
NoContent == [project |-> NoProject, values |-> <<>>]

\* GET project/{projectIdOrKey} on content c
RemoteGet(c, projectIdOrKey) ==
    IF c.project # NoProject
       /\ (projectIdOrKey = c.project.ID \/ projectIdOrKey = c.project.Key)
    THEN {Ok(c.project), FailedNoResponse}
    ELSE {Failed, FailedNoResponse}

\* GET issuetypescheme/project?projectId=projectIDInt on content c: the
\* page is filtered by the id the call passes, so an id that is not the
\* project's has no association to return.
RemoteSchemeProjects(c, projectIDInt) ==
    IF c.project # NoProject /\ Itoa(projectIDInt) = c.project.ID
    THEN c.values
    ELSE <<>>

----------------------------------------------------------------------------
(* State *)

VARIABLES
    projState,  \* the persisted project record: [present, m]
    last,       \* the last handler invocation: its inputs and its Result
    created     \* the id the remote assigned when the persisted record was
                \* created, and whether the remote has since answered every
                \* Get and Update with the project of the requested id

vars == <<projState, last, created>>

Absent == [present |-> FALSE, m |-> NullProject]
Stored(m) == [present |-> TRUE, m |-> m]

Invocation(op, arg, content, resps, result) ==
    [op |-> op, after |-> last.op, arg |-> arg, prev |-> projState,
     content |-> content,
     resps |-> SubSeq(resps, 1, Len(result.calls)),
     calls |-> result.calls, diags |-> result.diags, fault |-> result.fault,
     set |-> result.set, state |-> result.state]

\* between invocations the host runtime holds the persisted state only
Idle ==
    [op |-> "none", after |-> "none", arg |-> <<>>, prev |-> Absent, content |-> NoContent,
     resps |-> <<>>, calls |-> <<>>, diags |-> <<>>, fault |-> FALSE,
     set |-> FALSE, state |-> NoState]

\* the persisted record, if any, does not come from a Create
NotCreated == [id |-> 0, faithful |-> TRUE]

\* every Project.Get and Project.Update that succeeded returned the project
\* whose id is the one the call asked for
Faithful(calls, resps) ==
    \A i \in 1..Len(calls) :
        (calls[i].method \in {"Project.Get", "Project.Update"} /\ ~resps[i].err)
        => resps[i].val.ID = calls[i].key

Init ==
    /\ projState = Absent
    /\ last = Idle
    /\ created = NotCreated

\* resp.State after a project operation that started from projState: what
\* the handler set, or the prior state if it set nothing
Persist(result) == IF result.set THEN Stored(result.state) ELSE projState

----------------------------------------------------------------------------
(* Operations.  The host runtime invokes one handler at a time; a handler   *)
(* starts from Idle, or directly after the invocation named in its guard.   *)

LookupWorkflowScheme ==
    /\ last = Idle
    /\ \E config \in Configs, scheme \in WorkflowSchemes :
        \E r \in Outcomes(scheme) :
          /\ last' = Invocation("WorkflowScheme.Read", config, NoContent, <<r>>,
                                WorkflowSchemeRead(config, r))
          /\ UNCHANGED <<projState, created>>

LookupStatus ==
    /\ last = Idle
    /\ \E config \in Configs, statuses \in StatusLists :
        \E r \in Outcomes(statuses) :
          /\ last' = Invocation("Status.Read", config, NoContent, <<r>>,
                                StatusRead(config, r))
          /\ UNCHANGED <<projState, created>>

LookupIssueScreen ==
    /\ last = Idle
    /\ \E config \in Configs, screens \in ScreenLists :
        \E r \in Outcomes(screens) :
          /\ last' = Invocation("IssueScreen.Read", config, NoContent, <<r>>,
                                IssueScreenRead(config, r))
          /\ UNCHANGED <<projState, created>>

Import ==
    /\ last = Idle
    /\ ~projState.present
    /\ \E id \in IdStrings \ {<<>>} :
        /\ projState' = Stored(ImportState(id))
        /\ last' = Invocation("Project.ImportState", StringValue(id), NoContent, <<>>,
                              Result(<<>>, <<>>, FALSE, TRUE, ImportState(id)))
        /\ created' = NotCreated

Create ==
    /\ last = Idle
    /\ ~projState.present
    /\ \E plan \in PlanBodies, id \in RemoteIds :
         \E r \in Outcomes([ID |-> id]) :
           LET result == ProjectCreate(plan, r)
           IN  /\ projState' = Persist(result)
               /\ last' = Invocation("Project.Create", plan, NoContent, <<r>>, result)
               /\ created' = IF result.set
                              THEN [id |-> r.val.ID, faithful |-> TRUE]
                              ELSE NotCreated

\* Read of the persisted state against remote content c
ReadAgainst(c) ==
    \E get \in RemoteGet(c, ValueString(projState.m.ID)),
       schemes \in Outcomes(RemoteSchemeProjects(
                               c, Atoi(ValueString(projState.m.ID)).n)) :
      LET result == ProjectRead(projState.m, get, schemes)
      IN  /\ projState' = Persist(result)
          /\ last' = Invocation("Project.Read", projState.m, c,
                                <<get, schemes>>, result)
          /\ created' = [created EXCEPT !.faithful =
                             @ /\ Faithful(result.calls, <<get, schemes>>)]

\* a refresh: from Idle, or directly after a Create or an import
Read ==
    /\ last.op \in {"none", "Project.Create", "Project.ImportState"}
    /\ projState.present
    /\ \E c \in RemoteContents : ReadAgainst(c)

\* a second Read directly after a Read that stored its state, the remote
\* content being what it was for the first; its calls carry the id the
\* first Read stored
ReadAgain ==
    /\ last.op = "Project.Read"
    /\ last.set
    /\ projState.present
    /\ ReadAgainst(last.content)

Update ==
    /\ last = Idle
    /\ projState.present
    /\ \E body \in PlanBodies,
          planID \in {projState.m.ID} \cup {StringValue(Itoa(n)) : n \in RemoteIds},
          id \in RemoteIds :
         \E returned \in RemoteProjects(id) :
           \E update \in Outcomes(returned), assign \in Outcomes(<<>>) :
             LET plan   == [body EXCEPT !.ID = planID]
                 result == ProjectUpdate(plan, projState.m, update, assign)
             IN  /\ projState' = Persist(result)
                 /\ last' = Invocation("Project.Update", plan, NoContent,
                                       <<update, assign>>, result)
                 /\ created' = [created EXCEPT !.faithful =
                                    @ /\ Faithful(result.calls, <<update, assign>>)]

\* If Delete completes without error the framework removes the resource.
Delete ==
    /\ last = Idle
    /\ projState.present
    /\ \E r \in Outcomes(<<>>) :
         LET result == ProjectDelete(projState.m, r)
         IN  /\ projState' = IF result.diags = <<>> /\ ~result.fault
                             THEN Absent ELSE projState
             /\ last' = Invocation("Project.Delete", projState.m, NoContent,
                                   <<r>>, result)
             /\ created' = IF result.diags = <<>> /\ ~result.fault
                            THEN NotCreated ELSE created

\* the invocation is over: the host runtime keeps the persisted state
Return ==
    /\ last # Idle
    /\ last' = Idle
    /\ UNCHANGED <<projState, created>>

Next ==
    \/ LookupWorkflowScheme
    \/ LookupStatus
    \/ LookupIssueScreen
    \/ Import
    \/ Create
    \/ Read
    \/ ReadAgain
    \/ Update
    \/ Delete
    \/ Return

Spec == Init /\ [][Next]_vars

----------------------------------------------------------------------------
(* Properties *)

\* a decimal integer: an optional sign followed by one or more digits
IsDecimalInteger(s) ==
    LET body == IF s # <<>> /\ s[1] \in {"+", "-"} THEN SubSeq(s, 2, Len(s)) ELSE s
    IN  body # <<>> /\ \A i \in 1..Len(body) : body[i] \in Digits

Lookups == {"WorkflowScheme.Read", "Status.Read", "IssueScreen.Read"}
ProjectOps == {"Project.Create", "Project.Read", "Project.Update", "Project.Delete"}

\* the indices of the calls of the last invocation that returned an error
FailedCalls == {i \in 1..Len(last.resps) : last.resps[i].err}

\* the number of calls of the last invocation made with the given method
CallsOf(method) == Cardinality({i \in 1..Len(last.calls) : last.calls[i].method = method})

\* C1: in project Update the update call is keyed by the id of the prior
\* state, never by the id of the plan, whatever the plan's id is.
C1_UpdateKeyedByPriorStateId ==
    last.op = "Project.Update" =>
        /\ CallsOf("Project.Update") = 1
        /\ last.calls[1].method = "Project.Update"
        /\ last.calls[1].key = ValueString(last.prev.m.ID)

\* an Update ran whose plan carries an id other than the prior state's
C1_Witness ==
    /\ last.op = "Project.Update"
    /\ last.arg.ID # last.prev.m.ID
    /\ last.calls[1].key = ValueString(last.prev.m.ID)
    /\ last.calls[1].key # ValueString(last.arg.ID)

\* C2: a WorkflowScheme or IssueScreen lookup whose id is not an integer
\* ends with one validation error on the id attribute, no remote call and
\* no state written.
C2_NonNumericIdRejected ==
    (/\ last.op \in {"WorkflowScheme.Read", "IssueScreen.Read"}
     /\ ~IsDecimalInteger(ValueString(last.arg.ID)))
    => /\ last.diags = <<AttributeError>>
       /\ last.diags[1].attr = <<"i", "d">>
       /\ last.calls = <<>>
       /\ ~last.set
       /\ ~last.fault

\* an IssueScreen lookup was rejected for an id that is a bare sign
C2_Witness ==
    /\ last.op = "IssueScreen.Read"
    /\ ValueString(last.arg.ID) = <<"-">>
    /\ last.diags = <<AttributeError>>
    /\ last.calls = <<>>

\* the list of project ids holds the numeric id that the string projectID denotes
ContainsProject(projectIds, projectID) ==
    /\ IsDecimalInteger(projectID)
    /\ \E j \in 1..Len(projectIds) :
        /\ IsDecimalInteger(projectIds[j])
        /\ Atoi(projectIds[j]).n = Atoi(projectID).n

\* the associations the last Read received and the id it read
ReadValues == last.resps[2].val
ReadProjectID == ValueString(last.arg.ID)
ReadStored ==
    /\ last.op = "Project.Read"
    /\ last.set

\* C3: after a Read that received an association whose project-id list
\* contains this project's id, issueTypeScheme is the scheme id of such an
\* association.
C3_SchemeOfContainingAssociation ==
    (/\ ReadStored
     /\ \E i \in 1..Len(ReadValues) :
            ContainsProject(ReadValues[i].ProjectIds, ReadProjectID))
    => \E i \in 1..Len(ReadValues) :
        /\ ContainsProject(ReadValues[i].ProjectIds, ReadProjectID)
        /\ last.state.IssueTypeScheme =
               Int64Value(Atoi(ReadValues[i].IssueTypeScheme.ID).n)

\* C4: after a Read that received no association whose project-id list
\* contains this project's id, issueTypeScheme is what it was before.
C4_SchemeKeptWithoutAssociation ==
    (/\ ReadStored
     /\ \A i \in 1..Len(ReadValues) :
            ~ContainsProject(ReadValues[i].ProjectIds, ReadProjectID))
    => last.state.IssueTypeScheme = last.arg.IssueTypeScheme

\* C5: when a remote call of a handler returns an error, that call is the
\* last one the handler makes, the call was made once, and the persisted
\* state (or the lookup's state) is left as it was.
C5_ErrorAborts ==
    \A i \in FailedCalls :
        /\ i = Len(last.calls)
        /\ CallsOf(last.calls[i].method) = 1
        /\ ~last.set
        /\ projState = last.prev

\* an Update whose update call succeeded and whose assignment call failed
C5_Witness ==
    /\ last.op = "Project.Update"
    /\ Len(last.resps) = 2
    /\ ~last.resps[1].err
    /\ last.resps[2].err
    /\ projState = last.prev
    /\ ~last.set

\* C6: a failed remote call of a project operation ends in one error
\* diagnostic carrying the remote error message, with the raw body when a
\* response came with the error and without it when none did, and never in
\* a fault.
C6_FailureIsHandledDiagnostic ==
    (last.op \in ProjectOps /\ FailedCalls # {})
    => \A i \in FailedCalls :
        /\ ~last.fault
        /\ Len(last.diags) = 1
        /\ last.diags[1].msg = last.resps[i].msg
        /\ last.diags[1].body = (IF last.resps[i].res THEN last.resps[i].body ELSE <<>>)

\* C7: Delete issues one call, a delete keyed by the state's id with the
\* flag false, and completes without error exactly when that call succeeds.
C7_DeleteOneCall ==
    last.op = "Project.Delete" =>
        /\ Len(last.calls) = 1
        /\ last.calls[1].method = "Project.Delete"
        /\ last.calls[1].key = ValueString(last.prev.m.ID)
        /\ last.calls[1].enableUndo = FALSE
        /\ (last.diags = <<>> /\ ~last.fault) <=> ~last.resps[1].err
        /\ ~projState.present <=> ~last.resps[1].err

\* a Delete whose call succeeded removed the record
C7_Witness ==
    /\ last.op = "Project.Delete"
    /\ ~last.resps[1].err
    /\ Len(last.calls) = 1
    /\ ~projState.present

\* the lookup issued one call, scoped to the id of its configuration
LookupScoped ==
    /\ Len(last.calls) = 1
    /\ CASE last.op = "WorkflowScheme.Read" ->
              /\ last.calls[1].method = "Workflow.Scheme.Get"
              /\ last.calls[1].num = Atoi(ValueString(last.arg.ID)).n
         [] last.op = "Status.Read" ->
              /\ last.calls[1].method = "Workflow.Status.Gets"
              /\ last.calls[1].key = ValueString(last.arg.ID)
         [] last.op = "IssueScreen.Read" ->
              /\ last.calls[1].method = "Screen.Gets"
              /\ last.calls[1].num = Atoi(ValueString(last.arg.ID)).n

\* the lookup wrote the supplied id and the fields of entity
LookupWrote(entity) ==
    /\ last.set
    /\ last.state.ID = last.arg.ID
    /\ last.state.Name = StringValue(entity.Name)
    /\ last.state.Description = StringValue(entity.Description)
    /\ last.op = "Status.Read" =>
           last.state.Category = StringValue(entity.StatusCategory)

\* the entity of the response that the state is to be read from
LookupEntity ==
    IF last.op = "WorkflowScheme.Read" THEN last.resps[1].val ELSE last.resps[1].val[1]

NumericLookup ==
    /\ last.op \in Lookups
    /\ IsDecimalInteger(ValueString(last.arg.ID))

\* C8 as stated: for a numeric id every lookup issues one call scoped to
\* the id and, when the call succeeds, writes the id and the fields of the
\* response.
C8_AsStated ==
    NumericLookup =>
        /\ LookupScoped
        /\ ~last.resps[1].err =>
               /\ last.op # "WorkflowScheme.Read" => Len(last.resps[1].val) > 0
               /\ LookupWrote(LookupEntity)

\* C8 amended: the same, for a call that succeeds and, for Status and
\* IssueScreen, returns at least one element; the fields are those of the
\* first element.
C8_LookupMapsFirstElement ==
    NumericLookup =>
        /\ LookupScoped
        /\ (/\ ~last.resps[1].err
            /\ last.op # "WorkflowScheme.Read" => Len(last.resps[1].val) > 0)
           => LookupWrote(LookupEntity)

\* a Status lookup by a signed id wrote the first of two returned statuses
C8_Witness ==
    /\ last.op = "Status.Read"
    /\ ValueString(last.arg.ID) = <<"-", "1">>
    /\ ~last.resps[1].err
    /\ Len(last.resps[1].val) = 2
    /\ last.set
    /\ last.state.Name = StringValue(last.resps[1].val[1].Name)

\* C9: Create issues one create call; on success the persisted state is
\* the plan with the id the remote assigned, on failure nothing is
\* persisted.
C9_CreateStoresPlanWithRemoteId ==
    last.op = "Project.Create" =>
        /\ Len(last.calls) = 1
        /\ last.calls[1].method = "Project.Create"
        /\ ~last.resps[1].err =>
               /\ projState.present
               /\ Atoi(ValueString(projState.m.ID)).n = last.resps[1].val.ID
               /\ projState.m.ID = StringValue(Itoa(last.resps[1].val.ID))
               /\ [projState.m EXCEPT !.ID = last.arg.ID] = last.arg
        /\ last.resps[1].err => ~projState.present

\* a Create succeeded with a plan that sets the issue type scheme
C9_Witness ==
    /\ last.op = "Project.Create"
    /\ ~last.resps[1].err
    /\ projState.present
    /\ projState.m.ID = StringValue(<<"2">>)
    /\ projState.m.IssueTypeScheme = Int64Value(10)

\* C10: a Read directly after a Read that stored its state, the remote
\* content unchanged, leaves the persisted state as the first Read left it.
C10_ReadIdempotent ==
    (last.op = "Project.Read" /\ last.after = "Project.Read")
    => projState = last.prev

\* a Read that stored its state, directly after a Create that stored its
ReadAfterCreate ==
    /\ last.op = "Project.Read"
    /\ last.after = "Project.Create"
    /\ last.prev.present
    /\ last.set

\* C11: after a successful Create followed at once by a successful Read of
\* the created id, key, name, description, leadAccountId, projectTypeKey
\* and url are those of the project the remote returned for that id.
C11_ReadAfterCreateTakesRemoteValues ==
    ReadAfterCreate =>
        LET project == last.resps[1].val
        IN  /\ last.calls[1].method = "Project.Get"
            /\ last.calls[1].key = ValueString(last.prev.m.ID)
            /\ projState.present
            /\ projState.m.Key = StringValue(project.Key)
            /\ projState.m.Name = StringValue(project.Name)
            /\ projState.m.Description = StringValue(project.Description)
            /\ projState.m.LeadAccountId = StringValue(project.LeadAccountID)
            /\ projState.m.ProjectTypeKey = StringValue(project.ProjectTypeKey)
            /\ projState.m.URL = StringValue(project.URL)

\* such a Read replaced a planned name and a null planned lead by the
\* remote's values
C11_Witness ==
    /\ ReadAfterCreate
    /\ last.prev.m.Name = StringValue(<<"P", "l", "a", "n">>)
    /\ last.prev.m.LeadAccountId.null
    /\ projState.m.Name = StringValue(<<"N", "e", "w">>)
    /\ projState.m.LeadAccountId = StringValue(<<"u", "2">>)

\* C12: in Update the assignment call is issued once, after the update
\* call, whenever the update call succeeds, with the plan's issue type
\* scheme (set or not) and for the project id of the update response; it
\* is not issued when the update call fails.
C12_AssignFollowsSuccessfulUpdate ==
    last.op = "Project.Update" =>
        /\ last.calls[1].method = "Project.Update"
        /\ ~last.resps[1].err =>
               /\ Len(last.calls) = 2
               /\ last.calls[2].method = "Issue.Type.Scheme.Assign"
               /\ last.calls[2].key = last.resps[1].val.ID
               /\ last.calls[2].scheme = Int64String(last.arg.IssueTypeScheme)
               /\ CallsOf("Issue.Type.Scheme.Assign") = 1
        /\ last.resps[1].err =>
               /\ Len(last.calls) = 1
               /\ CallsOf("Issue.Type.Scheme.Assign") = 0

\* an Update whose plan leaves the issue type scheme unset assigned it all
\* the same, to a returned project id other than the prior state's
C12_Witness ==
    /\ last.op = "Project.Update"
    /\ last.arg.IssueTypeScheme.null
    /\ ~last.resps[1].err
    /\ Len(last.calls) = 2
    /\ last.calls[2].method = "Issue.Type.Scheme.Assign"
    /\ last.calls[2].scheme = <<"<", "n", "u", "l", "l", ">">>
    /\ last.calls[2].key # ValueString(last.prev.m.ID)

\* C13: while the remote answers every Get and Update with the project of
\* the requested id, the persisted id of a created project is the id the
\* remote assigned at Create, whatever Reads and Updates have run since.
C13_CreatedIdKept ==
    (created.id # 0 /\ created.faithful /\ projState.present)
    => /\ projState.m.ID = StringValue(Itoa(created.id))
       /\ Atoi(ValueString(projState.m.ID)).n = created.id

\* an Update stored its state after a Read had stored the remote's name
\* over the created record, the plan of the Update carrying another id
\* than the created one
C13_Witness ==
    /\ created.id = 1
    /\ created.faithful
    /\ last.op = "Project.Update"
    /\ last.set
    /\ last.arg.ID = StringValue(<<"2">>)
    /\ last.prev.m.Name = StringValue(<<"N", "e", "w">>)
    /\ ~last.prev.m.WorkflowScheme.null
    /\ projState.m.ID = StringValue(<<"1">>)

\* a Status or IssueScreen lookup whose call succeeded with no element
EmptyLookup ==
    /\ last.op \in {"Status.Read", "IssueScreen.Read"}
    /\ Len(last.resps) = 1
    /\ ~last.resps[1].err
    /\ Len(last.resps[1].val) = 0

\* C14: a Status or IssueScreen lookup whose call succeeds with an empty
\* collection ends in a fault, writes no state and adds no diagnostic.
C14_EmptyCollectionFaults ==
    EmptyLookup =>
        /\ last.fault
        /\ ~last.set
        /\ last.diags = <<>>
        /\ Len(last.calls) = 1

\* an IssueScreen lookup by a valid id got an empty page and faulted
C14_Witness ==
    /\ EmptyLookup
    /\ last.op = "IssueScreen.Read"
    /\ ValueString(last.arg.ID) = <<"1", "0">>
    /\ last.calls[1].num = 10
    /\ last.fault

====
